---- MODULE Spec2Model ----
(***************************************************************************)
(* Model of the sampling routines of L9/Markov+Chain+Monte-Carlo.ipynb:    *)
(* MCMCDemo (Metropolis-Hastings) together with the demo cell that calls   *)
(* it twice (burn-in, then recording), rejSamplingDemo and                 *)
(* impSamplingDemo.                                                        *)
(*                                                                         *)
(* Floating-point values that take part in the accept/reject decisions are *)
(* records [n, d] with n, d >= 0 standing for n/d; d = 0 with n > 0 is     *)
(* +inf and d = 0 with n = 0 is NaN, which is what numpy's float64         *)
(* division of non-negative operands produces (warnings are filtered by    *)
(* the notebook, so no exception is raised).                               *)
(***************************************************************************)
EXTENDS Integers, Sequences, FiniteSets, TLC

\* ------------------------------------------------------------------ bounds
MaxN == 2        \* largest number of recorded samples N of a call
MaxT == 2        \* largest thinning interval T of a call
MaxBurnin == 1   \* largest Nburnin of the burn-in call
UDen == 2        \* uniform draws are j/UDen, j in 0..UDen-1, i.e. in [0,1)
MaxK == 3        \* largest envelope scale factor k of rejSamplingDemo
MaxSamples == 2  \* largest N of rejSamplingDemo and impSamplingDemo

\* The largest finite double, which nan_to_num substitutes for +inf.  Only
\* its being finite and >= 1 matters to min(1, .).
FloatMax == 1000000

\* Chain states (a finite grid standing for the real line) and the values an
\* unnormalized density takes on them.
States == {0, 1, 2}
Weights == {0, 1, 2}

\* ---------------------------------------------------- float64 arithmetic
Zero == [n |-> 0, d |-> 1]
One == [n |-> 1, d |-> 1]

\* a / b for non-negative finite a, b: a/0 = +inf (a > 0), 0/0 = NaN
FDiv(a, b) == [n |-> a, d |-> b]

IsNaN(r) == r.n = 0 /\ r.d = 0
IsInf(r) == r.n > 0 /\ r.d = 0

\* a < b on floats: False whenever an operand is NaN
FLess(a, b) == ~IsNaN(a) /\ ~IsNaN(b) /\ a.n * b.d < b.n * a.d

\* a == b on floats (as values)
FEq(a, b) == ~IsNaN(a) /\ ~IsNaN(b) /\ a.n * b.d = b.n * a.d

\* np.nan_to_num: NaN -> 0.0, +inf -> largest finite double, else unchanged
NanToNumNoNaN(r) == IF IsInf(r) THEN [n |-> FloatMax, d |-> 1] ELSE r
NanToNumInfZero(r) == IF IsNaN(r) \/ IsInf(r) THEN Zero ELSE r
nan_to_num(r) ==
    IF IsNaN(r) THEN Zero
    ELSE IF IsInf(r) THEN [n |-> FloatMax, d |-> 1]
    ELSE r

\* GammaUnnorm(x, a, b) = np.nan_to_num((b**a) * (x**(a-1)) * np.exp(-b*x)):
\* the product is NaN where x**(a-1) is (x < 0 with a fractional power), and
\* the value returned is 0.0 there.  RawDensity are the values of the product,
\* TargetTables the tables of returned values (whole numbers, kept as such).
RawDensity == {FDiv(0, 0)} \cup {FDiv(w, 1) : w \in Weights}
GammaUnnorm(raw) == nan_to_num(raw)
TargetTables ==
    {[s \in States |-> GammaUnnorm(raw[s]).n] : raw \in [States -> RawDensity]}

\* Python's builtin min(a, b): b if b < a else a
PyMin(a, b) == IF FLess(b, a) THEN b ELSE a

\* ------------------------------------------------------------- MCMC state
VARIABLES
    phat,      \* the unnormalized target: phat[s] for s in States
    qpdf,      \* the proposal pdf: qpdf[<<s, mu>>], density of s given mu
    cx,        \* the demo cell's variable x (the initial x)
    cN,        \* the demo cell's N
    cT,        \* the demo cell's T
    Nburnin,   \* the demo cell's Nburnin
    call,      \* where the cell is: "start", "burnin", "between", "sample", "done"
    x,         \* MCMCDemo's local x: the chain state
    N,         \* MCMCDemo's parameter N
    T,         \* MCMCDemo's parameter T
    i,         \* outer loop index
    t,         \* inner loop index
    u,         \* the last uniform draw
    xc,        \* the last candidate
    prev,      \* the chain state the last inner-loop body started from
    rng,       \* the draws the last inner-loop body took from np.random's
               \* process-wide generator, in the order it took them
    xs,        \* the sample array
    ret,       \* the returned tuple <<estmean, xs>>; <<>> while the call runs
    steps,     \* number of inner-loop bodies run by the current call
    recAt,     \* the value of steps at each write of xs[i]
    \* rejSamplingDemo and impSamplingDemo
    qdist,     \* the frozen proposal's pdf: qdist[s] for s in States (qpdf.pdf)
    rej_k,     \* rejSamplingDemo's k
    rej_N,     \* rejSamplingDemo's N
    rej_x,     \* x = qpdf.rvs(size=N)
    rej_u,     \* u = random.uniform(0,1,N)
    rej_t,     \* t, the vector of test outcomes
    rej_ic,    \* ic, the indices where t is True
    rej_ret,   \* the returned tuple <<estmean, x[ic]>>; <<>> before the call
    imp_N,     \* impSamplingDemo's N
    imp_x,     \* x = qpdf.rvs(size=N)
    imp_wl,    \* wl, the normalized weights
    imp_ret,   \* the returned tuple <<estmean, x, wl>>; <<>> before the call
    \* the one-step transition rule of MCMCDemo as a kernel
    k_cur,     \* the current state looked at
    k_cand,    \* the candidate looked at
    k_fwd,     \* phat(cur) * q(cand|cur) * acceptance probability cur -> cand
    k_bwd,     \* phat(cand) * q(cur|cand) * acceptance probability cand -> cur
    k_out,     \* sum over s # cur of the flow cur -> s
    k_in,      \* sum over s # cur of the flow s -> cur
    k_done     \* the kernel has been evaluated

mhvars == <<phat, qpdf, cx, cN, cT, Nburnin, call, x, N, T, i, t, u, xc, prev, rng,
            xs, ret, steps, recAt>>

rejvars == <<qdist, rej_k, rej_N, rej_x, rej_u, rej_t, rej_ic, rej_ret>>
impvars == <<imp_N, imp_x, imp_wl, imp_ret>>
kvars == <<k_cur, k_cand, k_fwd, k_bwd, k_out, k_in, k_done>>

vars == <<mhvars, rejvars, impvars, kvars>>

\* the proposal tables tried: a symmetric random walk and a walk that drifts
\* upwards (asymmetric)
QSym == [p \in States \X States |-> IF p[1] = p[2] THEN 2 ELSE 1]
QDrift == [p \in States \X States |-> IF p[1] > p[2] THEN 2 ELSE 1]
QTables == {QSym, QDrift}

\* qsample(mu): the values stats.norm.rvs(mu, 1.0) can return
qsample(mu) == {s \in States : qpdf[<<s, mu>>] > 0}

\* the uniform draws np.random.uniform(0,1) can return
Uniform == {[n |-> j, d |-> UDen] : j \in 0 .. (UDen - 1)}

\* (phat(xc)*qpdf(x,xc)) / (phat(x)*qpdf(xc,x))
RatioSwapped(cur, cand) ==
    FDiv(phat[cand] * qpdf[<<cand, cur>>], phat[cur] * qpdf[<<cur, cand>>])
RatioInverted(cur, cand) ==
    FDiv(phat[cur] * qpdf[<<cand, cur>>], phat[cand] * qpdf[<<cur, cand>>])
Ratio(cur, cand) ==
    FDiv(phat[cand] * qpdf[<<cur, cand>>], phat[cur] * qpdf[<<cand, cur>>])

\* min(1, np.nan_to_num(ratio))
AcceptProb(cur, cand) == PyMin(One, nan_to_num(Ratio(cur, cand)))

\* the condition of the if statement
AcceptLeq(uu, cur, cand) == ~FLess(AcceptProb(cur, cand), uu)
Accept(uu, cur, cand) == FLess(uu, AcceptProb(cur, cand))

\* np.zeros(N)
ZerosOneMore(n) == [k \in 1 .. (n + 1) |-> 0]
Zeros(n) == [k \in 1 .. n |-> 0]

RECURSIVE SeqSum(_)
SeqSum(s) == IF s = <<>> THEN 0 ELSE Head(s) + SeqSum(Tail(s))

\* np.mean(a): sum / len, NaN for an empty array
Mean(a) == FDiv(SeqSum(a), Len(a))

\* MCMCDemo(x, ...) binds its own local x to the argument; nothing of an
\* earlier call's frame survives
BindContinue(arg) == IF call = "between" THEN x ELSE arg
BindLocal(arg) == arg

\* entry of MCMCDemo: parameters bound, xs = np.zeros(N).  u, xc, prev and rng are
\* not yet bound in the new frame; they keep showing the last inner-loop body
\* that ran, until the first body of this call.
Enter(x0, n, tt) ==
    /\ x' = BindLocal(x0)
    /\ N' = n
    /\ T' = tt
    /\ xs' = Zeros(n)
    /\ i' = 0
    /\ t' = 0
    /\ steps' = 0
    /\ recAt' = <<>>
    /\ ret' = <<>>
    /\ UNCHANGED <<u, xc, prev, rng>>

\* no MCMCDemo frame exists
NoFrame ==
    /\ x = 0 /\ N = 0 /\ T = 0 /\ i = 0 /\ t = 0
    /\ u = Zero /\ xc = 0 /\ prev = 0 /\ rng = <<>>
    /\ xs = <<>>
    /\ ret = <<>>
    /\ steps = 0
    /\ recAt = <<>>

\* the parts of the state a specification does not run
MHOff ==
    /\ cx = 0 /\ cN = 0 /\ cT = 0 /\ Nburnin = 0
    /\ call = "off"
    /\ NoFrame

RejOff ==
    /\ rej_k = 1 /\ rej_N = 0
    /\ rej_x = <<>> /\ rej_u = <<>> /\ rej_t = <<>> /\ rej_ic = <<>>
    /\ rej_ret = <<>>

ImpOff == imp_N = 0 /\ imp_x = <<>> /\ imp_wl = <<>> /\ imp_ret = <<>>

KernelOff ==
    /\ k_cur = 0 /\ k_cand = 0
    /\ k_fwd = Zero /\ k_bwd = Zero /\ k_out = Zero /\ k_in = Zero
    /\ k_done = FALSE

Init ==
    /\ phat \in TargetTables
    /\ qpdf \in QTables
    /\ cx \in States
    /\ cN \in 0 .. MaxN
    /\ cT \in 0 .. MaxT
    /\ Nburnin \in 0 .. MaxBurnin
    /\ call = "start"
    /\ NoFrame
    /\ qdist = [s \in States |-> 1]
    /\ RejOff /\ ImpOff /\ KernelOff

\* MCMCDemo(0, phat, qpdf, qsample, N=Nburnin, T=1)
CallBurnin ==
    /\ call = "start"
    /\ call' = "burnin"
    /\ Enter(0, Nburnin, 1)
    /\ UNCHANGED <<rejvars, impvars, kvars>>
    /\ UNCHANGED <<phat, qpdf, cx, cN, cT, Nburnin>>

\* estmean, xs = MCMCDemo(x, phat, qpdf, qsample, N=N, T=T)
CallSample ==
    /\ call = "between"
    /\ call' = "sample"
    /\ Enter(cx, cN, cT)
    /\ UNCHANGED <<rejvars, impvars, kvars>>
    /\ UNCHANGED <<phat, qpdf, cx, cN, cT, Nburnin>>

Running == call \in {"burnin", "sample"} /\ ret = <<>>

\* a draw from the process-wide generator, appended to the draws so far:
\* u = np.random.uniform(0,1), and xc = qsample(x), i.e. stats.norm.rvs
DrawUniform(log, uu) == Append(log, [fn |-> "uniform", val |-> uu])
DrawProposal(log, cand) == Append(log, [fn |-> "qsample", val |-> cand])

\* the draws of one inner-loop body, in statement order
StepDrawsCandidateFirst(uu, cand) == DrawUniform(DrawProposal(<<>>, cand), uu)
StepDraws(uu, cand) == DrawProposal(DrawUniform(<<>>, uu), cand)

\* one body of the inner loop: draw u, draw xc, accept or reject
Step ==
    /\ Running
    /\ i < N
    /\ t < T
    /\ \E uu \in Uniform, cand \in qsample(x) :
          /\ u' = uu
          /\ xc' = cand
          /\ prev' = x
          /\ rng' = StepDraws(uu, cand)
          /\ x' = IF Accept(uu, x, cand) THEN cand ELSE x
    /\ t' = t + 1
    /\ steps' = steps + 1
    /\ UNCHANGED <<rejvars, impvars, kvars>>
    /\ UNCHANGED <<phat, qpdf, cx, cN, cT, Nburnin, call, N, T, i, xs, ret, recAt>>

\* the inner loop is exhausted: xs[i] = x, next i
RecordNoReset ==
    /\ Running
    /\ i < N
    /\ t = T
    /\ xs' = [xs EXCEPT ![i + 1] = x]
    /\ recAt' = Append(recAt, steps)
    /\ i' = i + 1
    /\ t' = t
    /\ UNCHANGED <<rejvars, impvars, kvars>>
    /\ UNCHANGED <<phat, qpdf, cx, cN, cT, Nburnin, call, x, N, T, u, xc, prev, rng, ret,
                   steps>>
Record ==
    /\ Running
    /\ i < N
    /\ t = T
    /\ xs' = [xs EXCEPT ![i + 1] = x]
    /\ recAt' = Append(recAt, steps)
    /\ i' = i + 1
    /\ t' = 0
    /\ UNCHANGED <<rejvars, impvars, kvars>>
    /\ UNCHANGED <<phat, qpdf, cx, cN, cT, Nburnin, call, x, N, T, u, xc, prev, rng, ret,
                   steps>>

\* the outer loop is exhausted: estmean = np.mean(xs); return estmean, xs
Return ==
    /\ Running
    /\ i = N
    /\ ret' = <<Mean(xs), xs>>
    /\ UNCHANGED <<rejvars, impvars, kvars>>
    /\ UNCHANGED <<phat, qpdf, cx, cN, cT, Nburnin, call, x, N, T, i, t, u, xc, prev, rng,
                   xs, steps, recAt>>

\* the burn-in call's value is discarded; the cell goes on
AfterBurnin ==
    /\ call = "burnin"
    /\ ret # <<>>
    /\ call' = "between"
    /\ UNCHANGED <<rejvars, impvars, kvars>>
    /\ UNCHANGED <<phat, qpdf, cx, cN, cT, Nburnin, x, N, T, i, t, u, xc, prev, rng, xs,
                   ret, steps, recAt>>

\* estmean, xs are bound in the cell and printed
AfterSample ==
    /\ call = "sample"
    /\ ret # <<>>
    /\ call' = "done"
    /\ UNCHANGED <<rejvars, impvars, kvars>>
    /\ UNCHANGED <<phat, qpdf, cx, cN, cT, Nburnin, x, N, T, i, t, u, xc, prev, rng, xs,
                   ret, steps, recAt>>

Next ==
    \/ CallBurnin
    \/ Step
    \/ Record
    \/ Return
    \/ AfterBurnin
    \/ CallSample
    \/ AfterSample

Spec == Init /\ [][Next]_vars

\* ------------------------------------------------------- rejSamplingDemo
\* the values a proposal pdf takes on States (positive: every point can be
\* drawn) and the values qpdf.rvs can return
QWeights == {1, 2}
Support == {s \in States : qdist[s] > 0}

\* the vectorized test  u < GammaUnnorm(x, a=a, b=b) / (k * qpdf.pdf(x)),
\* at one sample; phat[s] is GammaUnnorm(s, a, b)
RejTestLeq(uu, xv, kk) == ~FLess(FDiv(phat[xv], kk * qdist[xv]), uu)
RejTestTimesK(uu, xv, kk) == FLess(uu, FDiv(phat[xv] * kk, qdist[xv]))
RejTest(uu, xv, kk) == FLess(uu, FDiv(phat[xv], kk * qdist[xv]))

\* np.where(t == True)[0]: the indices at which t is True, ascending
RECURSIVE Where(_, _)
Where(tv, from) ==
    IF from > Len(tv) THEN <<>>
    ELSE (IF tv[from] THEN <<from>> ELSE <<>>) \o Where(tv, from + 1)

\* x[ic]
Take(xv, ic) == [j \in 1 .. Len(ic) |-> xv[ic[j]]]

InitRej ==
    /\ phat \in TargetTables
    /\ qdist \in [States -> QWeights]
    /\ rej_k \in 1 .. MaxK
    /\ rej_N \in 0 .. MaxSamples
    /\ rej_x = <<>> /\ rej_u = <<>> /\ rej_t = <<>> /\ rej_ic = <<>>
    /\ rej_ret = <<>>
    /\ qpdf = QSym
    /\ MHOff /\ ImpOff /\ KernelOff

\* the whole call: draw x and u, test, select, average, return
rejSamplingDemo ==
    /\ rej_ret = <<>>
    /\ \E xv \in [1 .. rej_N -> Support], uv \in [1 .. rej_N -> Uniform] :
          LET tv == [j \in 1 .. rej_N |-> RejTest(uv[j], xv[j], rej_k)]
              ic == Where(tv, 1)
              acc == Take(xv, ic)
          IN  /\ rej_x' = xv
              /\ rej_u' = uv
              /\ rej_t' = tv
              /\ rej_ic' = ic
              /\ rej_ret' = <<Mean(acc), acc>>
    /\ UNCHANGED <<phat, qpdf, qdist, rej_k, rej_N>>
    /\ UNCHANGED <<cx, cN, cT, Nburnin, call, x, N, T, i, t, u, xc, prev, rng, xs, ret,
                   steps, recAt>>
    /\ UNCHANGED <<impvars, kvars>>

NextRej == rejSamplingDemo

SpecRej == InitRej /\ [][NextRej]_vars

\* ------------------------------------------------------- impSamplingDemo
RECURSIVE GCD(_, _)
GCD(a, b) == IF b = 0 THEN a ELSE GCD(b, a % b)

\* the same value in lowest terms
Reduce(r) ==
    LET g == GCD(r.n, r.d)
    IN  IF g = 0 THEN r ELSE [n |-> r.n \div g, d |-> r.d \div g]

\* a + b, a / b and c * a (c a non-negative integer) on floats that are
\* finite or NaN
FAdd(a, b) == Reduce([n |-> a.n * b.d + b.n * a.d, d |-> a.d * b.d])
FQuot(a, b) == Reduce([n |-> a.n * b.d, d |-> a.d * b.n])
FScale(c, a) == Reduce([n |-> c * a.n, d |-> a.d])

\* np.sum
RECURSIVE FSum(_)
FSum(s) == IF s = <<>> THEN Zero ELSE FAdd(Head(s), FSum(Tail(s)))

\* wl = wl / np.sum(wl)
NormalizeByCount(w) == [j \in 1 .. Len(w) |-> FQuot(w[j], [n |-> Len(w), d |-> 1])]
Normalize(w) == [j \in 1 .. Len(w) |-> FQuot(w[j], FSum(w))]

InitImp ==
    /\ phat \in TargetTables
    /\ qdist \in [States -> QWeights]
    /\ imp_N \in 0 .. MaxSamples
    /\ imp_x = <<>> /\ imp_wl = <<>> /\ imp_ret = <<>>
    /\ qpdf = QSym
    /\ MHOff /\ RejOff /\ KernelOff

\* the whole call: draw x, weigh, normalize, weighted sum, return
impSamplingDemo ==
    /\ imp_ret = <<>>
    /\ \E xv \in [1 .. imp_N -> Support] :
          LET raw == [j \in 1 .. imp_N |-> FDiv(phat[xv[j]], qdist[xv[j]])]
              wl == Normalize(raw)
              est == FSum([j \in 1 .. imp_N |-> FScale(xv[j], wl[j])])
          IN  /\ imp_x' = xv
              /\ imp_wl' = wl
              /\ imp_ret' = <<est, xv, wl>>
    /\ UNCHANGED <<phat, qpdf, qdist, imp_N>>
    /\ UNCHANGED <<cx, cN, cT, Nburnin, call, x, N, T, i, t, u, xc, prev, rng, xs, ret,
                   steps, recAt>>
    /\ UNCHANGED <<rej_k, rej_N, rej_x, rej_u, rej_t, rej_ic, rej_ret>>
    /\ UNCHANGED kvars

NextImp == impSamplingDemo

SpecImp == InitImp /\ [][NextImp]_vars

\* ------------------------------------- the transition rule of MCMCDemo
\* strictly positive target weights
PosWeights == {1, 2, 3}

\* One inner step from cur moves to cand # cur when qsample(cur) returns
\* cand, which has density qpdf(cand, cur), and u < min(1, r), which for u
\* uniform on [0,1) has probability min(1, r).  Flow is phat(cur) times that.
Flow(cur, cand) == FScale(phat[cur] * qpdf[<<cand, cur>>], AcceptProb(cur, cand))

RECURSIVE FlowOut(_, _)
FlowOut(cur, S) ==
    IF S = {} THEN Zero
    ELSE LET s == CHOOSE s \in S : TRUE
         IN  FAdd(Flow(cur, s), FlowOut(cur, S \ {s}))

RECURSIVE FlowIn(_, _)
FlowIn(cur, S) ==
    IF S = {} THEN Zero
    ELSE LET s == CHOOSE s \in S : TRUE
         IN  FAdd(Flow(s, cur), FlowIn(cur, S \ {s}))

InitKernel ==
    /\ phat \in [States -> PosWeights]
    /\ qpdf \in [States \X States -> QWeights]
    /\ qdist = [s \in States |-> 1]
    /\ KernelOff
    /\ MHOff /\ RejOff /\ ImpOff

Kernel ==
    /\ ~k_done
    /\ \E cur \in States, cand \in States :
          /\ cur # cand
          /\ k_cur' = cur
          /\ k_cand' = cand
          /\ k_fwd' = Flow(cur, cand)
          /\ k_bwd' = Flow(cand, cur)
          /\ k_out' = FlowOut(cur, States \ {cur})
          /\ k_in' = FlowIn(cur, States \ {cur})
    /\ k_done' = TRUE
    /\ UNCHANGED <<phat, qpdf>>
    /\ UNCHANGED <<cx, cN, cT, Nburnin, call, x, N, T, i, t, u, xc, prev, rng, xs, ret,
                   steps, recAt>>
    /\ UNCHANGED <<rejvars, impvars>>

NextKernel == Kernel

SpecKernel == InitKernel /\ [][NextKernel]_vars

\* ------------------------------------------------------- claims: MCMCDemo
\* an inner-loop body of the current call has run: prev, xc, u, x describe it
Stepped == call \in {"burnin", "sample"} /\ steps > 0

\* C1 (as stated): a chain whose current state has phat = 0 keeps that state
\* after the step, whatever the candidate and the uniform draw
C1_AlwaysRejectFromZero == (Stepped /\ phat[prev] = 0) => x = prev

\* C1 (amended): from a current state with phat = 0 the candidate is
\* accepted for every u when phat(xc)*qpdf(x,xc) > 0 (the ratio is +inf,
\* which nan_to_num turns into a finite number >= 1) and the state is kept
\* only when that product is 0 as well (the ratio is NaN, turned into 0)
C1_ZeroDensityStep ==
    (Stepped /\ phat[prev] = 0) =>
        x = (IF phat[xc] * qpdf[<<prev, xc>>] > 0 THEN xc ELSE prev)

C1_Witness ==
    Stepped /\ phat[prev] = 0 /\ phat[xc] > 0 /\ xc # prev /\ u.n = UDen - 1

\* C2: the ratio compared with u is never NaN, and when phat is 0 at both
\* the current and the candidate state (0/0) the step rejects
C2_RatioNeverNaN ==
    Stepped =>
        /\ ~IsNaN(nan_to_num(Ratio(prev, xc)))
        /\ (phat[prev] = 0 /\ phat[xc] = 0) => x = prev

C2_Witness == Stepped /\ phat[prev] = 0 /\ phat[xc] = 0 /\ xc # prev /\ u.n = 0

\* C3: the returned sample sequence has exactly N entries, the N the caller
\* asked for, whatever T, x0 and the accepted proposals
C3_LengthIsN ==
    /\ call \in {"burnin", "sample"} => Len(xs) = N
    /\ ret # <<>> => Len(ret[2]) = N
    /\ (call = "sample" /\ ret # <<>>) => Len(ret[2]) = cN
    /\ (call = "burnin" /\ ret # <<>>) => Len(ret[2]) = Nburnin

C3_Witness ==
    /\ call = "sample" /\ ret # <<>>
    /\ N = 2 /\ T = 2 /\ ret[2][1] # ret[2][2] /\ ret[2][1] # cx

\* C4: after an inner step the chain state is the candidate exactly when
\* u < min(1, r), r = phat(xc)*qpdf(x,xc) / (phat(x)*qpdf(xc,x)), and the
\* previous state otherwise; a candidate with r >= 1 is accepted for every u
C4_AcceptRule ==
    Stepped =>
        LET num == phat[xc] * qpdf[<<prev, xc>>]
            den == phat[prev] * qpdf[<<xc, prev>>]
            low == IF num < den THEN num ELSE den
        IN  /\ x \in {prev, xc}
            /\ den > 0 => x = (IF u.n * den < u.d * low THEN xc ELSE prev)
            /\ (num > 0 /\ num >= den) => x = xc
            /\ (num = 0 /\ den = 0) => x = prev

C4_Witness ==
    /\ Stepped /\ xc # prev /\ x = prev /\ u.n > 0
    /\ phat[prev] * qpdf[<<xc, prev>>] > phat[xc] * qpdf[<<prev, xc>>]
    /\ phat[xc] > 0
    /\ qpdf[<<prev, xc>>] # qpdf[<<xc, prev>>]

\* C5: the recording call starts from the cell's x, not from the state the
\* burn-in call ended in: its chain state before its first step is x and its
\* first candidate is drawn from qsample(x)
C5_RecordingStartsFromCallerX ==
    /\ (call = "sample" /\ steps = 0) => x = cx
    /\ (call = "sample" /\ steps = 1) => (prev = cx /\ xc \in qsample(cx))

\* the burn-in call ran one step and moved away from the cell's x; the
\* recording call has just been entered
C5_Witness ==
    /\ call = "sample" /\ steps = 0 /\ i = 0 /\ ret = <<>>
    /\ Nburnin = 1 /\ prev = 0 /\ Accept(u, prev, xc) /\ xc # cx
    /\ x = cx

\* C9: a call runs exactly N*T inner steps; sample k (1-based) is written
\* after exactly k*T steps and is the chain state at that time, from which
\* the chain continues
C9_StepsAndRecording ==
    call \in {"burnin", "sample"} =>
        /\ steps = i * T + t
        /\ steps <= N * T
        /\ ret # <<>> => steps = N * T
        /\ Len(recAt) = i
        /\ \A k \in 1 .. i : recAt[k] = k * T
        /\ (i > 0 /\ t = 0) => xs[i] = x

C9_Witness ==
    /\ call = "sample" /\ ret # <<>> /\ N = 2 /\ T = 2 /\ steps = 4
    /\ xs[1] # cx /\ xs[2] # xs[1]

\* ------------------------------------------------ claims: impSamplingDemo
RECURSIVE SeqProd(_)
SeqProd(s) == IF s = <<>> THEN 1 ELSE Head(s) * SeqProd(Tail(s))

\* the raw weights phat(x_j)/q(x_j) over the common denominator prod q(x_j)
ImpScaled ==
    LET L == SeqProd([j \in 1 .. imp_N |-> qdist[imp_x[j]]])
    IN  [j \in 1 .. imp_N |-> phat[imp_x[j]] * (L \div qdist[imp_x[j]])]

ImpReturned == imp_ret # <<>>
ImpPositive == \A j \in 1 .. imp_N : phat[imp_x[j]] > 0 /\ qdist[imp_x[j]] > 0

\* the returned weights are non-negative, sum to 1, each is its raw weight
\* over the sum of the raw weights, and the estimate is sum x_j * wl_j
ImpNormalized ==
    LET wl == imp_ret[3]
        W == ImpScaled
        tot == SeqSum(W)
        D == SeqProd([j \in 1 .. imp_N |-> wl[j].d])
    IN  /\ Len(wl) = imp_N
        /\ \A j \in 1 .. imp_N : wl[j].n >= 0 /\ wl[j].d > 0
        /\ \A j \in 1 .. imp_N : wl[j].n * tot = W[j] * wl[j].d
        /\ D > 0
        /\ SeqSum([j \in 1 .. imp_N |-> wl[j].n * (D \div wl[j].d)]) = D
        /\ imp_ret[1].d > 0
        /\ imp_ret[1].n * tot =
               SeqSum([j \in 1 .. imp_N |-> imp_x[j] * W[j]]) * imp_ret[1].d

\* C6 (as stated): for any finite set of drawn samples with finite positive
\* raw weights, the returned weights are non-negative and sum to 1 and the
\* estimate is the weighted sum
C6_WeightsSumToOne == (ImpReturned /\ ImpPositive) => ImpNormalized

\* C6 (amended): the same for any non-empty set of drawn samples (N >= 1);
\* for N = 0 the weights are the empty array, whose sum is 0
C6_WeightsSumToOneNonEmpty ==
    (ImpReturned /\ ImpPositive /\ imp_N >= 1) => ImpNormalized

C6_Witness ==
    /\ ImpReturned /\ ImpPositive /\ imp_N = 2
    /\ imp_x[1] # imp_x[2]
    /\ phat[imp_x[1]] * qdist[imp_x[2]] # phat[imp_x[2]] * qdist[imp_x[1]]
    /\ qdist[imp_x[1]] # qdist[imp_x[2]]

\* ------------------------------------------------ claims: rejSamplingDemo
RejReturned == rej_ret # <<>>

\* k*q(x) >= phat(x) everywhere
Dominates(kk) == \A s \in States : kk * qdist[s] >= phat[s]

\* the samples of this call that the test with scale factor kk accepts
AcceptedAt(kk) == {j \in 1 .. rej_N : RejTest(rej_u[j], rej_x[j], kk)}

\* C7 (as stated): with k*q >= phat everywhere, the acceptance rate strictly
\* increases whenever k is decreased to a smaller valid k (stated here for
\* runs all of whose proposals have positive target density)
C7_RateStrictlyIncreases ==
    (RejReturned /\ rej_N >= 1 /\ Dominates(rej_k)
        /\ \A j \in 1 .. rej_N : phat[rej_x[j]] > 0) =>
        /\ Len(rej_ret[2]) = Cardinality(AcceptedAt(rej_k))
        /\ \A k2 \in 1 .. (rej_k - 1) :
              Dominates(k2) =>
                  Cardinality(AcceptedAt(k2)) > Cardinality(AcceptedAt(rej_k))

\* C7 (amended): for the same proposals x and uniform draws u, every sample
\* accepted with k is accepted with a smaller valid k, so the acceptance
\* rate does not decrease when k is decreased (it need not increase)
C7_RateNeverDecreases ==
    (RejReturned /\ rej_N >= 1 /\ Dominates(rej_k)) =>
        /\ Len(rej_ret[2]) = Cardinality(AcceptedAt(rej_k))
        /\ \A k2 \in 1 .. (rej_k - 1) :
              Dominates(k2) =>
                  /\ AcceptedAt(rej_k) \subseteq AcceptedAt(k2)
                  /\ Cardinality(AcceptedAt(k2)) >= Cardinality(AcceptedAt(rej_k))

C7_Witness ==
    /\ RejReturned /\ rej_N = 2 /\ rej_k >= 2 /\ Dominates(rej_k - 1)
    /\ Len(rej_ret[2]) = 1
    /\ Cardinality(AcceptedAt(rej_k - 1)) = 2

RECURSIVE SumAt(_, _)
SumAt(xv, S) ==
    IF S = {} THEN 0
    ELSE LET j == CHOOSE j \in S : TRUE IN xv[j] + SumAt(xv, S \ {j})

\* C8: sample j is returned iff u_j < phat(x_j)/(k*q(x_j)); the returned
\* samples are exactly the passing proposals in their original order and
\* the estimate is the arithmetic mean of those
C8_AcceptedSubsequence ==
    RejReturned =>
        LET pass == {j \in 1 .. rej_N :
                        rej_u[j].n * rej_k * qdist[rej_x[j]]
                            < rej_u[j].d * phat[rej_x[j]]}
            out == rej_ret[2]
        IN  /\ Len(rej_x) = rej_N /\ Len(rej_u) = rej_N
            /\ Len(rej_ic) = Cardinality(pass)
            /\ \A j \in 1 .. Len(rej_ic) : rej_ic[j] \in pass
            /\ \A j \in 1 .. (Len(rej_ic) - 1) : rej_ic[j] < rej_ic[j + 1]
            /\ Len(out) = Len(rej_ic)
            /\ \A j \in 1 .. Len(out) : out[j] = rej_x[rej_ic[j]]
            /\ rej_ret[1] = [n |-> SumAt(rej_x, pass), d |-> Cardinality(pass)]

C8_Witness ==
    /\ RejReturned /\ rej_N = 2
    /\ rej_ic = <<2>> /\ rej_u[2].n > 0 /\ rej_u[1].n > 0
    /\ phat[rej_x[1]] > 0 /\ rej_x[1] # rej_x[2]

\* ------------------------------------- claims: the transition rule
\* C10: for strictly positive phat and qpdf and all x # y,
\* phat(x)*q(y|x)*min(1, r(x,y)) = phat(y)*q(x|y)*min(1, r(y,x)); hence the
\* probability mass leaving a state equals the mass entering it (phat is
\* stationary)
C10_DetailedBalance ==
    k_done =>
        /\ FEq(k_fwd, k_bwd)
        /\ FEq(k_out, k_in)

C10_Witness ==
    /\ k_done
    /\ qpdf[<<k_cur, k_cand>>] # qpdf[<<k_cand, k_cur>>]
    /\ phat[k_cur] # phat[k_cand]
    /\ FLess(AcceptProb(k_cur, k_cand), One)
    /\ FLess(Zero, k_fwd)

\* ------------------------------------- claims: zero-density candidates
\* the state the current call of MCMCDemo started from
CallStart == IF call = "burnin" THEN 0 ELSE cx

ProposalPositive == \A p \in States \X States : qpdf[p] > 0

\* C11: with a positive finite proposal density, a candidate whose target
\* density evaluates to 0 is never accepted from a state of positive target
\* density, whatever u; so once the chain is at a state of positive target
\* density, every later chain state and recorded sample has positive density
C11_ZeroCandidateNeverAccepted ==
    (call \in {"burnin", "sample"} /\ ProposalPositive) =>
        /\ (steps > 0 /\ phat[prev] > 0 /\ phat[xc] = 0) => x = prev
        /\ (steps > 0 /\ phat[prev] > 0) => phat[x] > 0
        /\ phat[CallStart] > 0 =>
              (phat[x] > 0 /\ \A k \in 1 .. i : phat[xs[k]] > 0)
        /\ \A k \in 1 .. i :
              phat[xs[k]] > 0 =>
                  (phat[x] > 0 /\ \A m \in k .. i : phat[xs[m]] > 0)

C11_Witness ==
    /\ call = "sample" /\ steps > 0 /\ ProposalPositive
    /\ phat[prev] > 0 /\ phat[xc] = 0 /\ xc # prev /\ u.n = 0
    /\ i >= 1 /\ phat[xs[1]] > 0 /\ phat[cx] = 0

\* ------------------------------------- claims: order of the random draws
\* C12 (as stated): in each inner step the candidate is drawn first and u
\* after it: the first value taken from the shared generator is the
\* proposal draw, the second is u
C12_CandidateDrawnFirst ==
    Stepped =>
        /\ Len(rng) = 2
        /\ rng[1].fn = "qsample" /\ rng[1].val = xc
        /\ rng[2].fn = "uniform" /\ rng[2].val = u

\* C12 (amended): in each inner step u is drawn first and the candidate
\* after it: the first value taken from the shared generator is u, the
\* second is the proposal draw, taken from qsample of the state the step
\* started from
C12_UniformDrawnFirst ==
    Stepped =>
        /\ Len(rng) = 2
        /\ rng[1].fn = "uniform" /\ rng[1].val = u
        /\ rng[2].fn = "qsample" /\ rng[2].val = xc
        /\ xc \in qsample(prev)

C12_Witness ==
    /\ call = "sample" /\ steps = 2 /\ Len(rng) = 2
    /\ u.n > 0 /\ xc # prev /\ x = xc

====
